---- MODULE Spec2Model ----
(***************************************************************************)
(* A model of src/src/tweenable.js: the tween registry (a doubly linked    *)
(* list threaded through the Tweenable instances), the update driver       *)
(* (processTweens / processTween), the interpolator (tweenProps), the      *)
(* easing composer and the Tweenable lifecycle methods.                    *)
(*                                                                         *)
(* The program is single threaded and run-to-completion, so every public   *)
(* call is one action.  A call is computed by operators that take the      *)
(* whole program state as a record s (fields tw, listHead, listTail, now,  *)
(* thrown, log) and return the state after the call; callbacks supplied by *)
(* the caller are run inside the call, where the code invokes them.        *)
(*                                                                         *)
(* Numbers: states hold integers, and an eased position is the fraction    *)
(* <<n, d>>.  start + (target - start) * n / d is computed with \div; it   *)
(* is the JavaScript value whenever the division is exact; the values of   *)
(* the one-tween specifications lie on a grid that makes it so.            *)
(***************************************************************************)
EXTENDS Integers, Sequences, FiniteSets, TLC

VARIABLES tw, listHead, listTail, now, thrown, log

vars == <<tw, listHead, listTail, now, thrown, log>>

(* ------------------------------ bounds --------------------------------- *)

\* Tweenable instances constructed in the registry specification.
NumTweens == 3

\* The clock (Tweenable.now) runs from 0 to RegMaxTime in the registry
\* specification, and from 0 to MaxTime in the single-tween specification.
RegMaxTime == 1

MaxTime == 4

\* seek() is called with milliseconds in -1 .. MaxSeek.
MaxSeek == 2

\* The filters the caller has attached to Tweenable.filters are 1 .. NumFilters.
NumFilters == 3

(* ---------------------------- constants -------------------------------- *)

DEFAULT_EASING == "linear"

DEFAULT_DURATION == 500

\* JavaScript null for an object reference (listHead, _next, _previous).
null == 0

\* A number or null: None is null, Some(v) the number v.
None == <<>>

Some(v) == <<v>>

\* ToNumber: null counts as 0 in arithmetic.
Num(o) == IF o = None THEN 0 ELSE o[1]

\* ToBoolean of a number or null: null and 0 are falsy.
Truthy(o) == o # None /\ o[1] # 0

\* Property values: a number is itself (the models use numbers >= 0), NaN is
\* the number NaN, and the values below NaN are non-numeric strings.
NaN == -1

\* typeof v === TYPE_STRING
typeofString(v) == v < NaN

\* string + NaN: the string with "NaN" appended, a string again.
concatNaN(v) == 2 * v

\* The hook names of a filter.
TWEEN_CREATED == "tweenCreated"

BEFORE_TWEEN == "beforeTween"

AFTER_TWEEN == "afterTween"

AFTER_TWEEN_END == "afterTweenEnd"

\* Tweenable.filters: the filter objects the caller attached, in key order.
\* A filter has all four hooks, and the odd ones apply (doesApply) to every
\* tween.
TweenableFilters == [f \in 1..NumFilters |-> f]

doesApply(f, T) == f % 2 = 1

\* The empty object {}.
EmptyState == [k \in {} |-> 0]

\* The caller's callbacks.  A render callback is noop or calls one lifecycle
\* method on a Tweenable (target); "absent" is an option the config leaves out.
noop == [op |-> "noop", target |-> null]

AbsentCb == [op |-> "absent", target |-> null]

\* Easing specifications: a formula name, a caller's function, a per-property
\* map, or absent.
AbsentEasing == [kind |-> "absent", name |-> "", map |-> EmptyState]

NameEasing(n) == [kind |-> "name", name |-> n, map |-> EmptyState]

FnEasing(f) == [kind |-> "fn", name |-> f, map |-> EmptyState]

MapEasing(m) == [kind |-> "map", name |-> "", map |-> m]

\* formulas = { ...easingFunctions }: the named curves known to the model.
formulas == {"linear"}

(* --------------------------- construction ------------------------------ *)

\* new Tweenable(): the fields the constructor sets; _isPlaying, _duration,
\* _pausedAtTime and _easing are undefined until setConfig() runs (FALSE, 0,
\* None and kind "undef" here).  The g-fields are history variables: the
\* lifecycle phase (idle, starting, playing, paused, cancelling, stopped,
\* cancelled), who started the current play segment (tween or resume), how
\* often each continuation was invoked in it, whether finish or then() was
\* ever given, and whether then() was.
constructor ==
  [ _config        |-> [duration |-> 0, finish |-> "null", render |-> AbsentCb,
                        easing |-> AbsentEasing],
    _delay         |-> 0,
    _duration      |-> 0,
    _next          |-> null,
    _previous      |-> null,
    _timestamp     |-> None,
    _pausedAtTime  |-> None,
    _isPlaying     |-> FALSE,
    _resolve       |-> "null",
    _reject        |-> "null",
    _currentState  |-> EmptyState,
    _originalState |-> EmptyState,
    _targetState   |-> EmptyState,
    _easing        |-> [kind |-> "undef", name |-> "", map |-> EmptyState],
    _render        |-> noop,
    _filters       |-> <<>>,
    gPhase         |-> "idle",
    gStarter       |-> "none",
    gResolved      |-> 0,
    gRejected      |-> 0,
    gGiven         |-> FALSE,
    gThen          |-> FALSE ]

\* The program state as one record.
Cur ==
  [ tw |-> tw, listHead |-> listHead, listTail |-> listTail, now |-> now,
    thrown |-> thrown, log |-> log ]

\* The last call was a processTweens() that does not return.
Hung == log # <<>> /\ log[Len(log)].ev = "hang"

\* The variables after a call that ends in state s.  No call is made while a
\* call has not returned.
Becomes(s) ==
  /\ ~Hung
  /\ tw' = s.tw
  /\ listHead' = s.listHead
  /\ listTail' = s.listTail
  /\ now' = s.now
  /\ thrown' = s.thrown
  /\ log' = s.log

\* An observable event of the current call: a callback or continuation the
\* code invokes (start, render, resolve, reject), or processTween entered.
Event(ev, t, state, offset, playing) ==
  [ev |-> ev, t |-> t, state |-> state, offset |-> offset, playing |-> playing,
   filter |-> 0]

\* filter(this): the hook ev of filter f is invoked on tween t.
FilterEvent(ev, t, state, f) ==
  [Event(ev, t, state, 0, FALSE) EXCEPT !.filter = f]

Emit(s, e) == [s EXCEPT !.log = Append(@, e)]

(* ----------------------------- registry -------------------------------- *)

\* remove(tween), up to the comment "Clean up any references": detach from
\* the list.  In the middle case the code writes through tween._previous and
\* tween._next; with either of them null that write is a TypeError (thrown).
unlink(s, t) ==
  IF t = s.listHead
  THEN IF s.tw[t]._next # null
       THEN [s EXCEPT !.listHead = s.tw[t]._next,
                      !.tw[s.tw[t]._next]._previous = null]
       ELSE [s EXCEPT !.listHead = null, !.listTail = null]
  ELSE IF t = s.listTail
  THEN IF s.tw[t]._previous # null
       THEN [s EXCEPT !.listTail = s.tw[t]._previous,
                      !.tw[s.tw[t]._previous]._next = null]
       ELSE [s EXCEPT !.listTail = null, !.listHead = null]
  ELSE IF s.tw[t]._previous = null
       THEN [s EXCEPT !.thrown = TRUE]
       ELSE IF s.tw[t]._next = null
       THEN [s EXCEPT !.tw[s.tw[t]._previous]._next = null,
                      !.thrown = TRUE]
       ELSE [s EXCEPT !.tw[s.tw[t]._previous]._next = s.tw[t]._next,
                      !.tw[s.tw[t]._next]._previous = s.tw[t]._previous]

\* tween._previous = tween._next = null
clearLinks(s, t) ==
  IF s.thrown
  THEN s
  ELSE [s EXCEPT !.tw[t]._previous = null, !.tw[t]._next = null]

\* remove(tween)
remove(s, t) == clearLinks(unlink(s, t), t)

\* insert with the line this._previous = listTail left out.
insertNoPrevious(s, t) ==
  IF s.listHead = null
  THEN [s EXCEPT !.listHead = t, !.listTail = t]
  ELSE [s EXCEPT !.tw[s.listTail]._next = t, !.listTail = t]

\* insert that links the tween in front of listHead.
insertAtHead(s, t) ==
  IF s.listHead = null
  THEN [s EXCEPT !.listHead = t, !.listTail = t]
  ELSE [s EXCEPT !.tw[t]._next = s.listHead,
                 !.tw[s.listHead]._previous = t,
                 !.listHead = t]

\* The tail of _resume(): append the tween to the list.
insert(s, t) ==
  IF s.listHead = null
  THEN [s EXCEPT !.listHead = t, !.listTail = t]
  ELSE [s EXCEPT !.tw[t]._previous = s.listTail,
                 !.tw[s.listTail]._next = t,
                 !.listTail = t]

(* --------------------------- interpolation ----------------------------- *)

\* formulas.linear: pos => pos, on a position <<n, d>>.
linear(pos) == pos

\* A caller's easing function: pos => pos < 1 ? 0 : 1.
step(pos) == IF pos[1] < pos[2] THEN <<0, 1>> ELSE <<1, 1>>

\* tweenProps: easedPosition = easingFn(normalizedPosition)
Ease(fn, pos) == IF fn = "step" THEN step(pos) ELSE linear(pos)

\* The curve tweenProps uses for a key: easing itself when it is callable,
\* else easing[key] (a function, or a name looked up in formulas).
EasingFn(easing, key) ==
  IF easing.kind = "fn" THEN easing.name ELSE easing.map[key]

\* Interpolate with start left out of the difference.
InterpolateFromZero(start, target, eased) ==
  start + (target * eased[1]) \div eased[2]

\* start + (target - start) * easedPosition
Interpolate(start, target, eased) ==
  IF typeofString(start)
  THEN concatNaN(start)
  ELSE IF start = NaN \/ target = NaN \/ typeofString(target)
  THEN NaN
  ELSE start + ((target - start) * eased[1]) \div eased[2]

\* tweenProps: the new contents of currentState.
tweenProps(forPosition, currentState, originalState, targetState, duration, timestamp, easing) ==
  LET normalizedPosition ==
        IF forPosition < timestamp
        THEN <<0, 1>>
        ELSE <<forPosition - timestamp, duration>>
  IN [key \in DOMAIN currentState |->
        Interpolate(originalState[key], targetState[key],
                    Ease(EasingFn(easing, key), normalizedPosition))]

\* composeEasingObject(fromTweenParams, easing = DEFAULT_EASING,
\* composedEasing = {}): a known formula name yields that one function;
\* otherwise the properties are written into composedEasing, which is
\* returned.  When composedEasing is the function a previous call returned,
\* the properties land on that function object and it stays callable.
composeEasingObject(fromTweenParams, easing, composedEasing) ==
  LET e == IF easing.kind = "absent" THEN NameEasing(DEFAULT_EASING) ELSE easing
      entry(prop) ==
        IF e.kind \in {"name", "fn"}
        THEN e.name
        ELSE IF prop \in DOMAIN e.map THEN e.map[prop] ELSE DEFAULT_EASING
      old == IF composedEasing.kind = "map" THEN composedEasing.map ELSE EmptyState
  IN IF e.kind = "name" /\ e.name \in formulas
     THEN FnEasing(e.name)
     ELSE IF composedEasing.kind = "fn"
     THEN composedEasing
     ELSE MapEasing([prop \in DOMAIN old \cup DOMAIN fromTweenParams |->
                       IF prop \in DOMAIN fromTweenParams
                       THEN entry(prop)
                       ELSE old[prop]])

(* ----------------------------- lifecycle ------------------------------- *)

\* A tweenConfig: the options the model reads.  duration 0, delay 0, finish
\* "null", render AbsentCb and easing AbsentEasing stand for an option that is
\* left out; undefined is the missing argument of tween().
Config(from, to, duration, delay, easing, finish, render) ==
  [ defined |-> TRUE, from |-> from, to |-> to, duration |-> duration,
    delay |-> delay, easing |-> easing, finish |-> finish, render |-> render ]

undefined ==
  [ defined |-> FALSE, from |-> EmptyState, to |-> EmptyState, duration |-> 0,
    delay |-> 0, easing |-> AbsentEasing, finish |-> "null", render |-> AbsentCb ]

RECURSIVE stop(_, _, _), pause(_, _), cancel(_, _, _), _resume(_, _, _),
          tween(_, _, _)

RECURSIVE applyFilterFrom(_, _, _, _)

\* The loop of _applyFilter from index i down: filterType = this._filters[i - i],
\* and filterType[filterName](this) (sequences count from 1).
applyFilterFrom(s, t, filterName, i) ==
  IF i > 0
  THEN applyFilterFrom(
         Emit(s, FilterEvent(filterName, t, s.tw[t]._currentState,
                             s.tw[t]._filters[(i - i) + 1])),
         t, filterName, i - 1)
  ELSE s

\* _applyFilter(filterName)
_applyFilter(s, t, filterName) ==
  applyFilterFrom(s, t, filterName, Len(s.tw[t]._filters))

\* hasFilters = this._filters.length > 0
hasFilters(T) == Len(T._filters) > 0

\* if (hasFilters) this._applyFilter(filterName)
filterHook(s, t, filterName) ==
  IF hasFilters(s.tw[t]) THEN _applyFilter(s, t, filterName) ELSE s

\* The config a finish callback starts the next segment with:
\* { from: {x: 0}, to: {x: 1000}, duration: 1, finish }.
ChainConfig ==
  Config([x |-> 0], [x |-> 2 * DEFAULT_DURATION], 1, 0, AbsentEasing, "finish",
         AbsentCb)

\* The body of the caller's finish callback cb: "restart" is
\* ({tweenable}) => tweenable.tween(ChainConfig), the others return.
runFinish(s, t, cb) ==
  IF cb = "restart"
  THEN [tween(s, t, ChainConfig) EXCEPT !.tw[t].gStarter = "finish"]
  ELSE s

\* this._resolve({data, state: this._currentState, tweenable}): finish, or the
\* resolver of the promise made by then().
callResolve(s, t) ==
  runFinish(
    [Emit(s, Event("resolve", t, s.tw[t]._currentState, 0, s.tw[t]._isPlaying))
       EXCEPT !.tw[t].gResolved = @ + 1],
    t, s.tw[t]._resolve)

\* this._reject({data, state: _currentState, tweenable}): the rejecter of the
\* promise made by then().
callReject(s, t) ==
  [Emit(s, Event("reject", t, s.tw[t]._currentState, 0, s.tw[t]._isPlaying))
     EXCEPT !.tw[t].gRejected = @ + 1]

\* The payload of this._resolve / this._reject holds state: _currentState,
\* the object itself and no copy: what a handler reads from the payload of
\* event e once the program is in state s.  (The handlers of the promise made
\* by then() run after the call that settled it has returned.)
payloadState(s, e) == s.tw[e.t]._currentState

\* The body of the caller's render callback cb: it may call a lifecycle
\* method of a Tweenable.
runCallback(s, cb) ==
  CASE cb.op = "pause"  -> pause(s, cb.target)
    [] cb.op = "stop"   -> stop(s, cb.target, FALSE)
    [] cb.op = "cancel" -> cancel(s, cb.target, FALSE)
    [] cb.op = "resume" -> _resume(s, cb.target, s.now)
    [] OTHER            -> s

\* this._render(state, data, offset)
callRender(s, t, state, offset) ==
  runCallback(Emit(s, Event("render", t, state, offset, s.tw[t]._isPlaying)),
              s.tw[t]._render)

\* this._start(this.get(), this._data)
callStart(s, t) ==
  Emit(s, Event("start", t, s.tw[t]._currentState, 0, s.tw[t]._isPlaying))

\* setConfig: for (const key in config) _config[key] = config[key]
mergeConfig(_config, config) ==
  [ duration |-> IF config.duration # 0 THEN config.duration ELSE _config.duration,
    finish   |-> IF config.finish # "null" THEN config.finish ELSE _config.finish,
    render   |-> IF config.render # AbsentCb THEN config.render ELSE _config.render,
    easing   |-> IF config.easing # AbsentEasing THEN config.easing ELSE _config.easing ]

\* setConfig: for (const key in from) _currentState[key] = from[key]
applyFrom(_currentState, from) ==
  [key \in DOMAIN _currentState \cup DOMAIN from |->
     IF key \in DOMAIN from THEN from[key] ELSE _currentState[key]]

\* setConfig: _originalState[key] = currentProp, for every key of _currentState
snapshotOriginal(_originalState, _currentState) ==
  [key \in DOMAIN _originalState \cup DOMAIN _currentState |->
     IF key \in DOMAIN _currentState
     THEN _currentState[key] ELSE _originalState[key]]

\* setConfig: _targetState[key] = to.hasOwnProperty(key) ? to[key] : currentProp
snapshotTarget(_targetState, _currentState, to) ==
  [key \in DOMAIN _targetState \cup DOMAIN _currentState |->
     IF key \in DOMAIN _currentState
     THEN IF key \in DOMAIN to THEN to[key] ELSE _currentState[key]
     ELSE _targetState[key]]

\* setConfig, after the merge into _config and the write of from into
\* _currentState (T holds both).
initState(T, config) ==
  [T EXCEPT
     !._isPlaying = FALSE,
     !._pausedAtTime = None,
     !._delay = config.delay,
     !._render = IF T._config.render # AbsentCb THEN T._config.render ELSE noop,
     !._duration = IF T._config.duration # 0
                   THEN T._config.duration ELSE DEFAULT_DURATION,
     !._resolve = IF T._config.finish # "null" THEN T._config.finish ELSE @,
     !._originalState = snapshotOriginal(@, T._currentState),
     !._targetState = snapshotTarget(@, T._currentState, config.to),
     !._easing = composeEasingObject(T._currentState, T._config.easing, @),
     !.gGiven = @ \/ T._config.finish # "null" ]

\* setConfig, up to this._easing = composeEasingObject(...)
configure(s, t, config) ==
  [s EXCEPT !.tw[t] =
     initState([@ EXCEPT !._config = mergeConfig(@, config),
                         !._currentState = applyFrom(@, config.from)],
               config)]

\* setConfig: anyPropsAreStrings
anyPropsAreStrings(_currentState) ==
  \E key \in DOMAIN _currentState : typeofString(_currentState[key])

\* setConfig: this._filters.length = 0, and with a string property every
\* filter of Tweenable.filters that doesApply is pushed.
retainFilters(T) ==
  IF anyPropsAreStrings(T._currentState)
  THEN SelectSeq(TweenableFilters, LAMBDA f : doesApply(f, T))
  ELSE <<>>

\* setConfig, from this._filters.length = 0 on: the filters are retained and,
\* with a string property, _applyFilter(TWEEN_CREATED) runs.
createFilters(s, t) ==
  IF anyPropsAreStrings(s.tw[t]._currentState)
  THEN _applyFilter([s EXCEPT !.tw[t]._filters = retainFilters(s.tw[t])],
                    t, TWEEN_CREATED)
  ELSE [s EXCEPT !.tw[t]._filters = <<>>]

\* setConfig(config = {})
setConfig(s, t, config) == createFilters(configure(s, t, config), t)

\* then(onFulfilled, onRejected): a new promise whose resolver and rejecter
\* become the continuations.
then(s, t) ==
  [s EXCEPT !.tw[t]._resolve = "promiseResolve",
            !.tw[t]._reject = "promiseReject",
            !.tw[t].gGiven = TRUE,
            !.tw[t].gThen = TRUE]

\* pause without its guard if (!this._isPlaying) return.
pauseUnguarded(s, t) ==
  remove([s EXCEPT !.tw[t]._pausedAtTime = Some(s.now),
                   !.tw[t]._isPlaying = FALSE,
                   !.tw[t].gPhase = "paused"], t)

\* pause()
pause(s, t) ==
  IF ~s.tw[t]._isPlaying
  THEN s
  ELSE remove([s EXCEPT !.tw[t]._pausedAtTime = Some(s.now),
                        !.tw[t]._isPlaying = FALSE,
                        !.tw[t].gPhase = "paused"], t)

\* _resume: if (this._pausedAtTime) { this._timestamp += currentTime -
\* this._pausedAtTime; this._pausedAtTime = null }
shiftTimestamp(s, t, currentTime) ==
  IF Truthy(s.tw[t]._pausedAtTime)
  THEN [s EXCEPT
          !.tw[t]._timestamp =
             Some(Num(@) + currentTime - Num(s.tw[t]._pausedAtTime)),
          !.tw[t]._pausedAtTime = None]
  ELSE s

\* _resume: this._isPlaying = true.  A resume that does not follow pause()
\* or tween() starts a new play segment.
markPlaying(s, t) ==
  IF s.tw[t].gPhase \in {"paused", "starting"}
  THEN [s EXCEPT !.tw[t]._isPlaying = TRUE, !.tw[t].gPhase = "playing"]
  ELSE [s EXCEPT !.tw[t]._isPlaying = TRUE,
                 !.tw[t].gPhase = "playing",
                 !.tw[t].gStarter = "resume",
                 !.tw[t].gResolved = 0,
                 !.tw[t].gRejected = 0]

\* _resume: if (this._timestamp === null) return this.tween().  The play
\* segment is one that a resume started.
resumeTween(s, t) ==
  [tween(s, t, undefined) EXCEPT !.tw[t].gStarter = "resume"]

\* _resume without if (this._isPlaying) return this._promise.
_resumeUnguarded(s, t, currentTime) ==
  IF s.tw[t]._timestamp = None
  THEN resumeTween(s, t)
  ELSE insert(markPlaying(shiftTimestamp(s, t, currentTime), t), t)

\* _resume(currentTime = Tweenable.now())
_resume(s, t, currentTime) ==
  IF s.tw[t]._timestamp = None
  THEN resumeTween(s, t)
  ELSE IF s.tw[t]._isPlaying
  THEN s
  ELSE insert(markPlaying(shiftTimestamp(s, t, currentTime), t), t)

\* resume()
resume(s, t) == _resume(s, t, s.now)

\* stop: this._resolve = null; this._reject = null
clearContinuations(s, t) ==
  [s EXCEPT !.tw[t]._resolve = "null", !.tw[t]._reject = "null"]

\* stop: if (this._resolve) this._resolve({...}), then the two are cleared.
settle(s, t) ==
  clearContinuations(IF s.tw[t]._resolve # "null" THEN callResolve(s, t) ELSE s,
                     t)

\* stop: if (gotoEnd) tweenProps(1, currentState, originalState, targetState,
\* 1, 0, easing)
gotoEndProps(s, t) ==
  [s EXCEPT !.tw[t]._currentState =
     tweenProps(1, @, s.tw[t]._originalState, s.tw[t]._targetState, 1, 0,
                s.tw[t]._easing)]

\* stop: the gotoEnd branch with its hooks: BEFORE_TWEEN, tweenProps, then
\* AFTER_TWEEN and AFTER_TWEEN_END.
gotoEndState(s, t) ==
  filterHook(
    filterHook(gotoEndProps(filterHook(s, t, BEFORE_TWEEN), t), t, AFTER_TWEEN),
    t, AFTER_TWEEN_END)

\* stopRemoved with the continuation invoked before the gotoEnd branch.
stopSettleFirst(s, t, gotoEnd) ==
  IF s.thrown
  THEN s
  ELSE IF gotoEnd THEN gotoEndState(settle(s, t), t) ELSE settle(s, t)

\* stop, after remove(this)
stopRemoved(s, t, gotoEnd) ==
  IF s.thrown
  THEN s
  ELSE settle(IF gotoEnd THEN gotoEndState(s, t) ELSE s, t)

\* stop(gotoEnd = false)
stop(s, t, gotoEnd) ==
  IF ~s.tw[t]._isPlaying
  THEN s
  ELSE stopRemoved(
         remove([s EXCEPT !.tw[t]._isPlaying = FALSE,
                          !.tw[t].gPhase = IF @ = "cancelling"
                                           THEN "cancelled" ELSE "stopped"], t),
         t, gotoEnd)

\* cancelClear with the two assignments left out.
cancelKeep(s, t) == [s EXCEPT !.tw[t].gPhase = "cancelling"]

\* cancel: this._resolve = null; this._reject = null
cancelClear(s, t) ==
  [s EXCEPT !.tw[t]._resolve = "null",
            !.tw[t]._reject = "null",
            !.tw[t].gPhase = "cancelling"]

\* cancel(gotoEnd = false)
cancel(s, t, gotoEnd) ==
  IF ~s.tw[t]._isPlaying
  THEN s
  ELSE stop(cancelClear(IF s.tw[t]._reject # "null" THEN callReject(s, t) ELSE s,
                        t),
            t, gotoEnd)

\* tween: return this._resume(this._timestamp)
tweenResume(s, t) ==
  IF s.thrown THEN s ELSE _resume(s, t, Num(s.tw[t]._timestamp))

\* tween: if (this._delay) this._render(this._currentState, this._data, 0)
tweenRender(s, t) ==
  tweenResume(IF s.tw[t]._delay # 0
              THEN callRender(s, t, s.tw[t]._currentState, 0)
              ELSE s,
              t)

\* tween: this._pausedAtTime = null; this._timestamp = Tweenable.now();
\* this._start(this.get(), this._data).  A play segment starts here.
tweenStart(s, t) ==
  tweenRender(callStart([s EXCEPT !.tw[t]._pausedAtTime = None,
                                  !.tw[t]._timestamp = Some(s.now),
                                  !.tw[t].gPhase = "starting",
                                  !.tw[t].gStarter = "tween",
                                  !.tw[t].gResolved = 0,
                                  !.tw[t].gRejected = 0], t),
              t)

\* tween: if (config || !this._config) this.setConfig(config).  this._config
\* is the object the constructor made, so !this._config is false and
\* setConfig runs only for a config.
tweenConfigure(s, t, config) ==
  IF s.thrown
  THEN s
  ELSE tweenStart(IF config.defined THEN setConfig(s, t, config) ELSE s, t)

\* tween with stop(true) in place of stop().
tweenGotoEnd(s, t, config) ==
  tweenConfigure(IF s.tw[t]._isPlaying THEN stop(s, t, TRUE) ELSE s, t, config)

\* tween(config = undefined)
tween(s, t, config) ==
  tweenConfigure(IF s.tw[t]._isPlaying THEN stop(s, t, FALSE) ELSE s, t, config)

(* --------------------------- update driver ----------------------------- *)

\* processTween: endTime = timestamp + delay + duration
endTime(T) == Num(T._timestamp) + T._delay + T._duration

\* processTween: timeToCompute = currentTime > endTime ? endTime : currentTime
timeToCompute(T, currentTime) ==
  IF currentTime > endTime(T) THEN endTime(T) ELSE currentTime

\* processTween: offset = duration - (endTime - timeToCompute)
offsetOf(T, currentTime) ==
  T._duration - (endTime(T) - timeToCompute(T, currentTime))

\* processTween, the not-ended branch up to tweenProps(...): inside the delay
\* (a case the early return has excluded) timestamp = duration =
\* timeToCompute = 1, else timestamp += delay.
interpolated(T, currentTime) ==
  IF timeToCompute(T, currentTime) < Num(T._timestamp) + T._delay
  THEN tweenProps(1, T._currentState, T._originalState, T._targetState, 1, 1,
                  T._easing)
  ELSE tweenProps(timeToCompute(T, currentTime), T._currentState,
                  T._originalState, T._targetState, T._duration,
                  Num(T._timestamp) + T._delay, T._easing)

\* processTween: tween._render(currentState, tween._data, offset)
renderCurrent(s, t, offset) ==
  callRender(s, t, s.tw[t]._currentState, offset)

\* processTween, the not-ended branch between the hooks BEFORE_TWEEN and
\* AFTER_TWEEN: tweenProps writes currentState.
processProps(s, t, currentTime) ==
  filterHook(
    [filterHook(s, t, BEFORE_TWEEN)
       EXCEPT !.tw[t]._currentState = interpolated(s.tw[t], currentTime)],
    t, AFTER_TWEEN)

\* processEnd with stop() in place of stop(true).
processEndNoGoto(s, t) == IF s.thrown THEN s ELSE stop(s, t, FALSE)

\* processTween: return tween.stop(true), after the render of targetState
processEnd(s, t) == IF s.thrown THEN s ELSE stop(s, t, TRUE)

\* processEntered without the early return of the delay window.
processEnteredNoDelay(s, t, currentTime) ==
  IF timeToCompute(s.tw[t], currentTime) >= endTime(s.tw[t])
  THEN processEnd(callRender(s, t, s.tw[t]._targetState,
                             offsetOf(s.tw[t], currentTime)), t)
  ELSE renderCurrent(processProps(s, t, currentTime), t,
                     offsetOf(s.tw[t], currentTime))

\* processTween, once entered (the event "process" is logged).
processEntered(s, t, currentTime) ==
  IF currentTime < Num(s.tw[t]._timestamp) + s.tw[t]._delay
  THEN s
  ELSE IF timeToCompute(s.tw[t], currentTime) >= endTime(s.tw[t])
  THEN processEnd(callRender(s, t, s.tw[t]._targetState,
                             offsetOf(s.tw[t], currentTime)), t)
  ELSE renderCurrent(processProps(s, t, currentTime), t,
                     offsetOf(s.tw[t], currentTime))

\* processTween(tween, currentTime)
processTween(s, t, currentTime) ==
  processEntered(
    Emit(s, Event("process", t, s.tw[t]._currentState, currentTime,
                  s.tw[t]._isPlaying)),
    t, currentTime)

RECURSIVE processLoop(_, _, _, _)

\* One configuration of the loop of processTweens(): the program state (the
\* log apart) and currentTween.  The loop is deterministic, so it never ends
\* once a configuration comes back.
loopConfig(s, currentTween) == <<[s EXCEPT !.log = <<>>], currentTween>>

\* processTweens: currentTween = nextTweenToProcess, after processTween
processNext(s, nextTweenToProcess, currentTime, seen) ==
  IF s.thrown THEN s ELSE processLoop(s, nextTweenToProcess, currentTime, seen)

\* The loop of processTweens(): _next is read before the tween is processed.
\* A loop that never ends is the event "hang"; seen holds the configurations
\* the loop has been in.
processLoop(s, currentTween, currentTime, seen) ==
  IF currentTween = null
  THEN s
  ELSE IF loopConfig(s, currentTween) \in seen
  THEN Emit(s, Event("hang", currentTween, s.tw[currentTween]._currentState,
                     currentTime, s.tw[currentTween]._isPlaying))
  ELSE processNext(processTween(s, currentTween, currentTime),
                   s.tw[currentTween]._next, currentTime,
                   seen \cup {loopConfig(s, currentTween)})

\* while (currentTween) { ... }, from currentTween on
processFrom(s, currentTween, currentTime) ==
  processLoop(s, currentTween, currentTime, {})

\* processTweens()
processTweens(s) == processFrom(s, s.listHead, s.now)

\* scheduleUpdate(): now = getCurrentTime(), then processTweens().
scheduleUpdate(s, time) == processTweens([s EXCEPT !.now = time])

\* clampMs without Math.max.
clampMsNone(millisecond) == millisecond

\* seek: millisecond = Math.max(millisecond, 0)
clampMs(millisecond) == IF millisecond > 0 THEN millisecond ELSE 0

\* seek(millisecond)
seek(s, t, millisecond) ==
  IF Num(s.tw[t]._timestamp) + clampMs(millisecond) = 0
  THEN s
  ELSE processTween(
         [s EXCEPT !.tw[t]._timestamp = Some(s.now - clampMs(millisecond))],
         t, s.now)

(* ------------------------------ actions -------------------------------- *)

\* The state a call starts from: the event log and the exception flag
\* describe one call.
Fresh == [Cur EXCEPT !.log = <<>>, !.thrown = FALSE]

\* The instances that exist.
Tweens == DOMAIN tw

\* setConfig() has run on t, so _duration, _easing and the states are set.
Configured(t) == tw[t]._duration # 0

\* t.tween(config)
Tween(t, config) == Becomes(tween(Fresh, t, config))

\* t.tween()
TweenAgain(t) ==
  /\ Configured(t)
  /\ Becomes(tween(Fresh, t, undefined))

\* t.then(...)
Then(t) == Becomes(then(Fresh, t))

\* t.pause()
Pause(t) == Becomes(pause(Fresh, t))

\* t.resume()
Resume(t) ==
  /\ Configured(t)
  /\ Becomes(resume(Fresh, t))

\* t.seek(millisecond)
Seek(t, millisecond) ==
  /\ Configured(t)
  /\ Becomes(seek(Fresh, t, millisecond))

\* t.stop(gotoEnd)
Stop(t, gotoEnd) == Becomes(stop(Fresh, t, gotoEnd))

\* t.cancel(gotoEnd)
Cancel(t, gotoEnd) == Becomes(cancel(Fresh, t, gotoEnd))

\* t.setConfig(config)
SetConfig(t, config) == Becomes(setConfig(Fresh, t, config))

\* One frame: scheduleUpdate() reads the clock, which does not run backwards.
Tick(time) ==
  /\ time >= now
  /\ Becomes(scheduleUpdate(Fresh, time))

(* ------------------- the registry specification ------------------------ *)

\* The render callback of tween t, when it has one: it pauses, stops or
\* cancels the instance constructed after t (the first one after the last).
RegRender(t) ==
  [ op |-> <<"pause", "stop", "cancel">>[((t - 1) % 3) + 1],
    target |-> (t % NumTweens) + 1 ]

\* { duration: 1, render? }: the registry does not depend on the values.
RegConfigs(t) ==
  { Config(EmptyState, EmptyState, 1, 0, AbsentEasing, "null", r) :
      r \in {AbsentCb, RegRender(t)} }

Init ==
  /\ tw = [t \in 1..NumTweens |-> constructor]
  /\ listHead = null
  /\ listTail = null
  /\ now = 0
  /\ thrown = FALSE
  /\ log = <<>>

Next ==
  \/ \E t \in Tweens : \E c \in RegConfigs(t) : Tween(t, c)
  \/ \E t \in Tweens : TweenAgain(t)
  \/ \E t \in Tweens : Pause(t)
  \/ \E t \in Tweens : Resume(t)
  \/ \E t \in Tweens : Stop(t, FALSE)
  \/ \E t \in Tweens : Cancel(t, FALSE)
  \/ \E time \in 0..RegMaxTime : Tick(time)

Spec == Init /\ [][Next]_vars

(* ------------------ the one-tween specifications ----------------------- *)

\* Values are multiples of Grid, which every duration of the model divides,
\* so that every interpolated value is the exact JavaScript number.
Grid == 2 * DEFAULT_DURATION

FromState == [x |-> 0, y |-> Grid]

InitOne ==
  /\ tw = [t \in {1} |-> constructor]
  /\ listHead = null
  /\ listTail = null
  /\ now = 0
  /\ thrown = FALSE
  /\ log = <<>>

\* The caller leaves from out only when the current values are on the grid.
OnGrid(t) ==
  \A k \in DOMAIN tw[t]._currentState : tw[t]._currentState[k] % Grid = 0

\* Interpolation and timing: the configs tween() is called with.
OneConfigs ==
  { Config(FromState, [x |-> Grid, y |-> 0], 4, 0, AbsentEasing, "finish", AbsentCb),
    Config(FromState, [x |-> Grid], 2, 1, NameEasing("linear"), "null", AbsentCb),
    Config(FromState, [x |-> Grid], 2, 0, MapEasing([x |-> "step"]), "null", AbsentCb),
    Config(EmptyState, [y |-> 0], 0, 2, AbsentEasing, "null", AbsentCb) }

NextOne ==
  \/ \E t \in Tweens : \E c \in OneConfigs :
       (c.from # EmptyState \/ OnGrid(t)) /\ Tween(t, c)
  \/ \E t \in Tweens : TweenAgain(t)
  \/ \E t \in Tweens : Pause(t)
  \/ \E t \in Tweens : Resume(t)
  \/ \E t \in Tweens : \E ms \in -1..MaxSeek : Seek(t, ms)
  \/ \E t \in Tweens : \E g \in BOOLEAN : Stop(t, g)
  \/ \E time \in 0..MaxTime : Tick(time)

SpecOne == InitOne /\ [][NextOne]_vars

\* Completion: the render callbacks of the tween, which may pause, stop or
\* cancel the tween itself, and the configs tween() is called with.
SelfRenders ==
  {noop} \cup {[op |-> o, target |-> 1] : o \in {"pause", "stop", "cancel"}}

ContConfigs ==
  { Config([x |-> 0], [x |-> Grid], 1, 0, AbsentEasing, f, r) :
      f \in {"null", "finish"}, r \in SelfRenders }

NextCont ==
  \/ \E t \in Tweens : \E c \in ContConfigs : Tween(t, c)
  \/ \E t \in Tweens : TweenAgain(t)
  \/ \E t \in Tweens : Then(t)
  \/ \E t \in Tweens : Pause(t)
  \/ \E t \in Tweens : Resume(t)
  \/ \E t \in Tweens : \E ms \in 0..RegMaxTime : Seek(t, ms)
  \/ \E t \in Tweens : \E g \in BOOLEAN : Stop(t, g)
  \/ \E t \in Tweens : \E g \in BOOLEAN : Cancel(t, g)
  \/ \E time \in 0..RegMaxTime : Tick(time)

SpecCont == InitOne /\ [][NextCont]_vars

\* One tween whose finish callback may start the next segment.
ChainConfigs ==
  { Config([x |-> 0], [x |-> Grid], 1, 0, AbsentEasing, f, AbsentCb) :
      f \in {"null", "finish", "restart"} }

NextChain ==
  \/ \E t \in Tweens : \E c \in ChainConfigs : Tween(t, c)
  \/ \E t \in Tweens : TweenAgain(t)
  \/ \E t \in Tweens : Pause(t)
  \/ \E t \in Tweens : Resume(t)
  \/ \E t \in Tweens : \E ms \in 0..MaxSeek : Seek(t, ms)
  \/ \E t \in Tweens : \E g \in BOOLEAN : Stop(t, g)
  \/ \E t \in Tweens : \E g \in BOOLEAN : Cancel(t, g)
  \/ \E time \in 0..MaxTime : Tick(time)

SpecChain == InitOne /\ [][NextChain]_vars

\* Two tweens: the first is configured with { from?, to, duration: 2,
\* finish? }, the second with { from, to, duration: 2 }, by tween(config) or,
\* before the first play, by setConfig(config).
InitPair ==
  /\ tw = [t \in {1, 2} |-> constructor]
  /\ listHead = null
  /\ listTail = null
  /\ now = 0
  /\ thrown = FALSE
  /\ log = <<>>

PairConfigs(t) ==
  IF t = 1
  THEN { Config(from, [x |-> Grid], 2, 0, AbsentEasing, f, AbsentCb) :
           from \in {EmptyState, [x |-> 0]}, f \in {"null", "finish"} }
  ELSE { Config([x |-> 0], [x |-> Grid], 2, 0, AbsentEasing, "null", AbsentCb) }

NextPair ==
  \/ \E t \in Tweens : \E c \in PairConfigs(t) :
       (c.from # EmptyState \/ Configured(t)) /\ Tween(t, c)
  \/ \E t \in Tweens : \E c \in PairConfigs(t) :
       tw[t]._timestamp = None /\ SetConfig(t, c)
  \/ \E t \in Tweens : TweenAgain(t)
  \/ \E t \in Tweens : Pause(t)
  \/ \E t \in Tweens : Resume(t)
  \/ \E t \in Tweens : Stop(t, FALSE)
  \/ \E time \in 0..RegMaxTime : Tick(time)

SpecPair == InitPair /\ [][NextPair]_vars

\* Reconfiguration: setConfig() is also called directly, in any state.
NextSet ==
  \/ \E t \in Tweens : \E c \in ContConfigs : Tween(t, c)
  \/ \E t \in Tweens : \E c \in ContConfigs : SetConfig(t, c)
  \/ \E t \in Tweens : TweenAgain(t)
  \/ \E t \in Tweens : Then(t)
  \/ \E t \in Tweens : Pause(t)
  \/ \E t \in Tweens : Resume(t)
  \/ \E t \in Tweens : \E ms \in 0..RegMaxTime : Seek(t, ms)
  \/ \E t \in Tweens : \E g \in BOOLEAN : Stop(t, g)
  \/ \E t \in Tweens : \E g \in BOOLEAN : Cancel(t, g)
  \/ \E time \in 0..RegMaxTime : Tick(time)

SpecSet == InitOne /\ [][NextSet]_vars

\* Filters: a tween of a string property c ("a" to "b") and a number x, and
\* a config that makes c a number again.
StringState(v) == [c |-> NaN - v, x |-> 0]

FilterConfigs ==
  { Config(StringState(1), [c |-> NaN - 2, x |-> Grid], 2, d, AbsentEasing,
           "null", AbsentCb) : d \in {0, 1} }
  \cup { Config([c |-> 0], [c |-> Grid], 2, 0, AbsentEasing, "null", AbsentCb) }

NextFilter ==
  \/ \E t \in Tweens : \E c \in FilterConfigs : Tween(t, c)
  \/ \E t \in Tweens : TweenAgain(t)
  \/ \E t \in Tweens : Pause(t)
  \/ \E t \in Tweens : Resume(t)
  \/ \E t \in Tweens : \E ms \in 0..MaxSeek : Seek(t, ms)
  \/ \E t \in Tweens : \E g \in BOOLEAN : Stop(t, g)
  \/ \E time \in 0..MaxTime : Tick(time)

SpecFilter == InitOne /\ [][NextFilter]_vars

(* ------------------------------- claims -------------------------------- *)

\* The tweens met from tween `from` by following _next, in at most fuel steps.
RECURSIVE Forward(_, _)
Forward(from, fuel) ==
  IF from = null \/ fuel = 0
  THEN <<>>
  ELSE <<from>> \o Forward(tw[from]._next, fuel - 1)

\* The tweens met from tween `from` by following _previous.
RECURSIVE Backward(_, _)
Backward(from, fuel) ==
  IF from = null \/ fuel = 0
  THEN <<>>
  ELSE <<from>> \o Backward(tw[from]._previous, fuel - 1)

Range(q) == {q[i] : i \in 1..Len(q)}

Playing == {t \in Tweens : tw[t]._isPlaying}

\* The events ev of tween t in the log of the last call.
Events(ev, t) == {i \in 1..Len(log) : log[i].ev = ev /\ log[i].t = t}

\* C1: after any sequence of tween/pause/resume/stop/cancel calls and ticks
\* over NumTweens instances, the traversal from listHead by _next and the
\* traversal from listTail by _previous both end, visit every tween at most
\* once, and visit exactly the tweens whose _isPlaying is true.
C1_RegistryIsPlayingSet ==
  LET f == Forward(listHead, Cardinality(Tweens) + 1)
      b == Backward(listTail, Cardinality(Tweens) + 1)
  IN /\ Len(f) = Cardinality(Range(f))
     /\ Len(b) = Cardinality(Range(b))
     /\ Range(f) = Playing
     /\ Range(b) = Playing

\* C1 witness: tween 1 was started after tween 3 and both play, while tween 2
\* has left the list by pause().
C1_Witness ==
  /\ Forward(listHead, NumTweens + 1) = <<3, 1>>
  /\ tw[2].gPhase = "paused"

\* C9: pause(), stop(gotoEnd) and cancel(gotoEnd) on a tween that is not
\* playing (idle, paused or stopped) return the state they were called in:
\* no field of any tween and nothing of the registry changes, no callback or
\* continuation is invoked (the log of the call stays empty), nothing throws.
C9_NotPlayingNoop ==
  \A t \in Tweens :
    ~tw[t]._isPlaying =>
      /\ pause(Fresh, t) = Fresh
      /\ \A g \in BOOLEAN : stop(Fresh, t, g) = Fresh
      /\ \A g \in BOOLEAN : cancel(Fresh, t, g) = Fresh

\* C9 witness: one tween is paused, one is stopped and one plays, and the
\* last call (a pause, stop or cancel of a tween that was not playing among
\* them) invoked nothing.
C9_Witness ==
  /\ \E t \in Tweens : tw[t].gPhase = "paused"
  /\ \E t \in Tweens : tw[t].gPhase = "stopped"
  /\ \E t \in Tweens : tw[t]._isPlaying
  /\ log = <<>>

\* C10 (as specified): in one tick, every tween that is registered
\* when the tick starts and still registered when it ends is processed
\* exactly once, and no tween is processed twice.
C10_EveryRegisteredProcessedOnce ==
  [][\A time \in 0..RegMaxTime :
       Tick(time) =>
         \A t \in Tweens :
           /\ Cardinality({i \in 1..Len(log') :
                             log'[i].ev = "process" /\ log'[i].t = t}) <= 1
           /\ (tw[t]._isPlaying /\ tw'[t]._isPlaying)
              => \E i \in 1..Len(log') :
                   log'[i].ev = "process" /\ log'[i].t = t]_vars

\* C2: in one play segment (from tween(), or from a resume() of a stopped
\* tween, to the stop, cancel or completion that ends it) _resolve is invoked
\* at most once, _reject at most once, and never both.
C2_AtMostOneContinuation ==
  \A t \in Tweens :
    /\ tw[t].gResolved <= 1
    /\ tw[t].gRejected <= 1
    /\ tw[t].gResolved + tw[t].gRejected <= 1

\* C2 witness: cancel() has ended a segment that had both continuations, and
\* only _reject was invoked.
C2_Witness ==
  \E t \in Tweens :
    /\ tw[t].gPhase = "cancelled"
    /\ tw[t].gThen
    /\ tw[t].gRejected = 1
    /\ tw[t].gResolved = 0

\* C3 (as specified): a play segment started by tween() on a
\* controller that was given continuations fires exactly one of them when it
\* ends: _resolve when stop() or natural completion ends it (finish or then()
\* given), _reject when cancel() ends it (then() given).
C3_ExactlyOneContinuation ==
  [][\A t \in Tweens :
       (tw[t]._isPlaying /\ tw[t].gStarter = "tween") =>
         /\ (tw'[t].gPhase = "stopped" /\ tw[t].gGiven)
            => (tw'[t].gResolved = 1 /\ tw'[t].gRejected = 0)
         /\ (tw'[t].gPhase = "cancelled" /\ tw[t].gThen)
            => (tw'[t].gRejected = 1 /\ tw'[t].gResolved = 0)]_vars

\* C6 (as specified): cancel(gotoEnd) on a playing tween with both
\* continuations pending invokes _reject once and nothing else, and the state
\* its payload holds when cancel() has returned, which is what the rejection
\* handler reads, is the state the tween had when cancel() was called, also
\* for gotoEnd = true; afterwards both continuations are null, the tween is
\* not playing and not in the registry.
C6_CancelRejectsWithStateAtCancel ==
  \A t \in Tweens :
    (tw[t]._isPlaying /\ tw[t]._resolve # "null" /\ tw[t]._reject # "null") =>
      \A g \in BOOLEAN :
        /\ cancel(Fresh, t, g).log =
             <<Event("reject", t, tw[t]._currentState, 0, TRUE)>>
        /\ payloadState(cancel(Fresh, t, g), cancel(Fresh, t, g).log[1]) =
             tw[t]._currentState
        /\ cancel(Fresh, t, g).tw[t]._resolve = "null"
        /\ cancel(Fresh, t, g).tw[t]._reject = "null"
        /\ ~cancel(Fresh, t, g).tw[t]._isPlaying
        /\ cancel(Fresh, t, g).listHead # t
        /\ cancel(Fresh, t, g).listTail # t

\* Every property of tween t is eased by formulas.linear.
Linear(t) ==
  \A k \in DOMAIN tw[t]._currentState : EasingFn(tw[t]._easing, k) = "linear"

\* The clock values a tick can read from the current state on.
Later == now..MaxTime

\* The events processTween logs when it ends a tween whose state is state:
\* the render of the target while the tween still plays, then _resolve (when
\* one is pending) once the tween has stopped.
EndEvents(t, time) ==
  << Event("process", t, tw[t]._currentState, time, TRUE),
     Event("render", t, tw[t]._targetState, tw[t]._duration, TRUE) >>
  \o IF tw[t]._resolve # "null"
     THEN <<Event("resolve", t, tw[t]._targetState, 0, FALSE)>>
     ELSE <<>>

\* C4: a playing tween with linear easing that a tick processes at a time >=
\* _timestamp + _delay + _duration gets one render, of exactly targetState
\* with offset _duration, while it is still playing; after it the tween is
\* out of the registry, _isPlaying is false, currentState is targetState, the
\* pending _resolve was invoked once (with the target state) and cleared, and
\* _reject was not invoked; a further tick does nothing for the tween.
C4_CompletionAtEnd ==
  \A t \in Tweens : \A time \in Later :
    (tw[t]._isPlaying /\ Linear(t) /\ time >= endTime(tw[t])) =>
      /\ scheduleUpdate(Fresh, time).log = EndEvents(t, time)
      /\ ~scheduleUpdate(Fresh, time).tw[t]._isPlaying
      /\ scheduleUpdate(Fresh, time).listHead = null
      /\ scheduleUpdate(Fresh, time).listTail = null
      /\ scheduleUpdate(Fresh, time).tw[t]._currentState = tw[t]._targetState
      /\ scheduleUpdate(Fresh, time).tw[t]._resolve = "null"
      /\ \A later \in time..MaxTime :
           scheduleUpdate([scheduleUpdate(Fresh, time) EXCEPT !.log = <<>>],
                          later).log = <<>>

\* C4 witness: a tick has ended a linear tween that was not yet at its
\* target and had finish pending.
C4_Witness ==
  \E t \in Tweens :
    /\ Len(log) = 3
    /\ log[1].ev = "process" /\ log[1].playing
    /\ log[1].state # tw[t]._targetState
    /\ log[2].ev = "render" /\ log[2].offset = tw[t]._duration
    /\ log[3].ev = "resolve"
    /\ Linear(t)
    /\ tw[t]._currentState = tw[t]._targetState
    /\ ~tw[t]._isPlaying

\* C5 (as specified): for a tween paused at clock p >= 0 and resumed
\* at clock r >= p, resume() leaves _timestamp = (_timestamp before) + (r - p).
C5_ResumeShiftsTimestamp ==
  \A t \in Tweens :
    (tw[t].gPhase = "paused" /\ tw[t]._pausedAtTime # None) =>
      resume(Fresh, t).tw[t]._timestamp =
        Some(Num(tw[t]._timestamp) + now - Num(tw[t]._pausedAtTime))

\* C7: a playing tween with linear easing and delay 0 that is processed at
\* elapsed time e = time - _timestamp in [0, _duration] gets a render of a
\* state with state[k] = original[k] + (target[k] - original[k]) * e / duration
\* for every property k (the division is exact on the model's grid).
C7_LinearInterpolation ==
  \A t \in Tweens : \A time \in Later :
    (/\ tw[t]._isPlaying /\ Linear(t) /\ tw[t]._delay = 0
     /\ time - Num(tw[t]._timestamp) \in 0..tw[t]._duration) =>
      /\ Len(scheduleUpdate(Fresh, time).log) >= 2
      /\ scheduleUpdate(Fresh, time).log[2].ev = "render"
      /\ \A k \in DOMAIN tw[t]._currentState :
           /\ ((tw[t]._targetState[k] - tw[t]._originalState[k])
                * (time - Num(tw[t]._timestamp))) % tw[t]._duration = 0
           /\ scheduleUpdate(Fresh, time).log[2].state[k] * tw[t]._duration =
                tw[t]._originalState[k] * tw[t]._duration
                + (tw[t]._targetState[k] - tw[t]._originalState[k])
                  * (time - Num(tw[t]._timestamp))

\* C7 witness: a tick has rendered a linear tween of duration 4 and delay 0
\* at elapsed time 1: x is a quarter of the way from 0 to Grid, y from Grid to 0.
C7_Witness ==
  \E t \in Tweens :
    /\ tw[t]._isPlaying /\ Linear(t) /\ tw[t]._delay = 0 /\ tw[t]._duration = 4
    /\ Len(log) = 2
    /\ log[1].ev = "process"
    /\ log[2].ev = "render" /\ log[2].offset = 1
    /\ log[2].state = [x |-> Grid \div 4, y |-> Grid - Grid \div 4]

\* C8: for a playing tween with delay > 0, a tick at a time < _timestamp +
\* _delay only enters processTween and returns: no render, no continuation,
\* every field of the tween (currentState included, which stays equal to
\* originalState when it was) and the registry are as before.  A tick at
\* _timestamp + _delay + e with 0 <= e < _duration renders, with offset e,
\* the state at the eased position e / _duration.
C8_DelayWindow ==
  \A t \in Tweens : \A time \in Later :
    (tw[t]._isPlaying /\ tw[t]._delay > 0) =>
      /\ time < Num(tw[t]._timestamp) + tw[t]._delay =>
           scheduleUpdate(Fresh, time) =
             [Fresh EXCEPT
                !.now = time,
                !.log = <<Event("process", t, tw[t]._currentState, time, TRUE)>>]
      /\ time - Num(tw[t]._timestamp) - tw[t]._delay \in 0..(tw[t]._duration - 1) =>
           /\ Len(scheduleUpdate(Fresh, time).log) = 2
           /\ scheduleUpdate(Fresh, time).log[2].ev = "render"
           /\ scheduleUpdate(Fresh, time).log[2].offset =
                time - Num(tw[t]._timestamp) - tw[t]._delay
           /\ \A k \in DOMAIN tw[t]._currentState :
                scheduleUpdate(Fresh, time).log[2].state[k] =
                  Interpolate(tw[t]._originalState[k], tw[t]._targetState[k],
                              Ease(EasingFn(tw[t]._easing, k),
                                   <<time - Num(tw[t]._timestamp) - tw[t]._delay,
                                     tw[t]._duration>>))

\* C8 witness: a tick inside the delay window has only entered processTween
\* for a tween that is still at its original state; and
\* C8_WitnessActive: a tick one time unit into the active phase of a tween
\* of delay 1 and duration 2 has rendered x half way.
C8_Witness ==
  \E t \in Tweens :
    /\ tw[t]._isPlaying /\ tw[t]._delay > 0
    /\ now > Num(tw[t]._timestamp)
    /\ now < Num(tw[t]._timestamp) + tw[t]._delay
    /\ log = <<Event("process", t, tw[t]._currentState, now, TRUE)>>
    /\ tw[t]._currentState = tw[t]._originalState

C8_WitnessActive ==
  \E t \in Tweens :
    /\ tw[t]._isPlaying /\ tw[t]._delay = 1 /\ tw[t]._duration = 2
    /\ now = Num(tw[t]._timestamp) + 2
    /\ Len(log) = 2
    /\ log[2].ev = "render" /\ log[2].offset = 1
    /\ log[2].state["x"] = Grid \div 2

\* The four hook points of a filter.
Hooks == {TWEEN_CREATED, BEFORE_TWEEN, AFTER_TWEEN, AFTER_TWEEN_END}

Reverse(q) == [i \in 1..Len(q) |-> q[Len(q) + 1 - i]]

\* The filters whose hook h the events of log q invoke, in order.
HookFilters(q, h) ==
  [i \in 1..Len(SelectSeq(q, LAMBDA e : e.ev = h)) |->
     SelectSeq(q, LAMBDA e : e.ev = h)[i].filter]

\* C11 (as specified): for a tween with n >= 1 retained filters, every hook
\* point invokes the hook once on each retained filter, the last retained
\* first: _applyFilter(h) for each of the four hooks, and the hooks that
\* stop(true) runs on a playing tween.
C11_EveryFilterOnceInReverse ==
  \A t \in Tweens :
    Len(tw[t]._filters) >= 1 =>
      /\ \A h \in Hooks :
           /\ HookFilters(_applyFilter(Fresh, t, h).log, h) =
                Reverse(tw[t]._filters)
           /\ Len(_applyFilter(Fresh, t, h).log) = Len(tw[t]._filters)
      /\ tw[t]._isPlaying =>
           \A h \in Hooks \ {TWEEN_CREATED} :
             HookFilters(stop(Fresh, t, TRUE).log, h) = Reverse(tw[t]._filters)

\* The state the next call starts from when the last one ended in state s.
After(s) == [s EXCEPT !.log = <<>>, !.thrown = FALSE]

\* The continuation events (resolve, reject) in log q.
Continuations(q) == SelectSeq(q, LAMBDA e : e.ev \in {"resolve", "reject"})

\* C12: a second seek(0), with the clock unchanged, leaves every field of the
\* tween (_timestamp, _currentState, _isPlaying among them) and the registry
\* as the first seek(0) left them and invokes no continuation; seek of a
\* negative number gives the state seek(0) gives.
C12_SeekZeroTwice ==
  \A t \in Tweens :
    /\ seek(After(seek(Fresh, t, 0)), t, 0).tw = seek(Fresh, t, 0).tw
    /\ seek(After(seek(Fresh, t, 0)), t, 0).listHead = seek(Fresh, t, 0).listHead
    /\ seek(After(seek(Fresh, t, 0)), t, 0).listTail = seek(Fresh, t, 0).listTail
    /\ Continuations(seek(After(seek(Fresh, t, 0)), t, 0).log) = <<>>
    /\ \A m \in {-1, -MaxSeek} : seek(Fresh, t, m) = seek(Fresh, t, 0)

\* C12 witness: seek(0), or seek of a negative number, has run at a clock
\* value > 0 on a paused tween that had progressed: the tween was processed
\* though not playing, its _timestamp is the clock value and its state is
\* back at the original.
C12_Witness ==
  \E t \in Tweens :
    /\ now > 0
    /\ tw[t]._timestamp = Some(now)
    /\ Len(log) = 2
    /\ log[1].ev = "process" /\ ~log[1].playing
    /\ log[1].state # tw[t]._originalState
    /\ log[2].ev = "render" /\ log[2].offset = 0
    /\ tw[t]._currentState = tw[t]._originalState

\* C13 (as specified): in every state reachable with direct setConfig()
\* calls and seek() in any lifecycle state, a tween is met from listHead by
\* _next exactly when its _isPlaying is true.
C13_RegisteredIffPlaying ==
  \A t \in Tweens :
    (t \in Range(Forward(listHead, Cardinality(Tweens) + 1))) <=> tw[t]._isPlaying

\* The tweens met in state s from tween `from` by following _next.
RECURSIVE ForwardIn(_, _, _)
ForwardIn(s, from, fuel) ==
  IF from = null \/ fuel = 0
  THEN <<>>
  ELSE <<from>> \o ForwardIn(s, s.tw[from]._next, fuel - 1)

\* The registry of state s, from listHead on.
Registry(s) == ForwardIn(s, s.listHead, Cardinality(DOMAIN s.tw) + 1)

\* Sequence q without t.
Without(q, t) == SelectSeq(q, LAMBDA u : u # t)

\* C14: tween(config) on a playing tween invokes the pending _resolve once,
\* with the state the tween has (stop() without gotoEnd: the state is not
\* moved to the target), then the start callback with that state overwritten
\* by config.from, and nothing else; afterwards _timestamp is the clock
\* value, the tween plays and the registry is the old one with the tween moved
\* to the tail.
C14_TweenWhilePlaying ==
  \A t \in Tweens : \A c \in PairConfigs(t) :
    tw[t]._isPlaying =>
      /\ tween(Fresh, t, c).log =
           (IF tw[t]._resolve # "null"
            THEN <<Event("resolve", t, tw[t]._currentState, 0, FALSE)>>
            ELSE <<>>)
           \o <<Event("start", t, applyFrom(tw[t]._currentState, c.from), 0, FALSE)>>
      /\ tween(Fresh, t, c).tw[t]._currentState =
           applyFrom(tw[t]._currentState, c.from)
      /\ tween(Fresh, t, c).tw[t]._timestamp = Some(now)
      /\ tween(Fresh, t, c).tw[t]._isPlaying
      /\ tween(Fresh, t, c).listTail = t
      /\ Registry(tween(Fresh, t, c)) = Without(Registry(Fresh), t) \o <<t>>

\* C14 witness: tween(config with finish) has run on a playing tween that
\* was ahead of another playing tween and not at its target: finish was
\* invoked with that state, and the tween is now the tail.
C14_Witness ==
  \E t \in Tweens :
    /\ Len(log) = 2
    /\ log[1].ev = "resolve" /\ log[1].t = t
    /\ log[1].state # tw[t]._targetState
    /\ log[2].ev = "start" /\ log[2].t = t
    /\ tw[t]._resolve = "finish"
    /\ tw[t]._isPlaying
    /\ listTail = t /\ listHead # t
    /\ now > 0

\* C15: resume() on a tween that was never started does what tween() does:
\* the same callbacks (the start callback first), _timestamp = the clock
\* value, the tween plays and is appended to the registry, every field as
\* tween() leaves it; resume() on a playing tween returns the state it was
\* called in (_timestamp, the registry and its order included).
C15_ResumeNeverStartedOrPlaying ==
  \A t \in Tweens :
    /\ tw[t]._timestamp = None =>
         /\ resume(Fresh, t).log = tween(Fresh, t, undefined).log
         /\ resume(Fresh, t).log[1] =
              Event("start", t, tw[t]._currentState, 0, FALSE)
         /\ resume(Fresh, t).tw[t]._timestamp = Some(now)
         /\ resume(Fresh, t).tw[t]._isPlaying
         /\ Registry(resume(Fresh, t)) = Registry(Fresh) \o <<t>>
         /\ [resume(Fresh, t).tw[t] EXCEPT !.gStarter = "tween"] =
              tween(Fresh, t, undefined).tw[t]
    /\ tw[t]._isPlaying => resume(Fresh, t) = Fresh

\* C15 witness: resume() has started a configured tween that had never been
\* started, at a clock value > 0 and behind another playing tween.
C15_Witness ==
  \E t \in Tweens :
    /\ tw[t].gStarter = "resume"
    /\ Len(log) = 1 /\ log[1].ev = "start" /\ log[1].t = t
    /\ tw[t]._timestamp = Some(now) /\ now > 0
    /\ tw[t]._isPlaying
    /\ listTail = t /\ listHead # t

\* The value of the curve of every property of tween t at position 1 is 1.
EndsAtOne(t) ==
  \A k \in DOMAIN tw[t]._currentState :
    Ease(EasingFn(tw[t]._easing, k), <<1, 1>>) = <<1, 1>>

\* The events of stop(): _resolve, when one is pending, with the state given.
StopEvents(t, state) ==
  IF tw[t]._resolve # "null"
  THEN <<Event("resolve", t, state, 0, FALSE)>>
  ELSE <<>>

\* C16: on a playing tween whose curves have value 1 at position 1,
\* stop(true) makes currentState the target before it invokes the pending
\* _resolve, whose payload holds the target (when invoked and when stop has
\* returned); stop(false) leaves currentState as it is and invokes _resolve
\* with it.  Either way nothing else is invoked, both continuations are
\* null afterwards and the tween is neither playing nor in the registry.
C16_StopGotoEnd ==
  \A t \in Tweens :
    (tw[t]._isPlaying /\ EndsAtOne(t)) =>
      /\ stop(Fresh, t, TRUE).log = StopEvents(t, tw[t]._targetState)
      /\ stop(Fresh, t, TRUE).tw[t]._currentState = tw[t]._targetState
      /\ stop(Fresh, t, FALSE).log = StopEvents(t, tw[t]._currentState)
      /\ stop(Fresh, t, FALSE).tw[t]._currentState = tw[t]._currentState
      /\ \A g \in BOOLEAN :
           /\ \A i \in 1..Len(stop(Fresh, t, g).log) :
                payloadState(stop(Fresh, t, g), stop(Fresh, t, g).log[i]) =
                  stop(Fresh, t, g).log[i].state
           /\ stop(Fresh, t, g).tw[t]._resolve = "null"
           /\ stop(Fresh, t, g).tw[t]._reject = "null"
           /\ ~stop(Fresh, t, g).tw[t]._isPlaying
           /\ Registry(stop(Fresh, t, g)) = <<>>

\* C16 witness: stop(true) has run, after its start and before its end time,
\* on a tween with finish pending: finish got the target, which is not the
\* original state.
C16_Witness ==
  \E t \in Tweens :
    /\ tw[t].gPhase = "stopped"
    /\ Len(log) = 1
    /\ log[1].ev = "resolve" /\ log[1].state = tw[t]._targetState
    /\ tw[t]._currentState = tw[t]._targetState
    /\ tw[t]._targetState # tw[t]._originalState
    /\ now < endTime(tw[t])
    /\ now > Num(tw[t]._timestamp)

\* Tween t was started in the call that led to the primed state: its start
\* callback is in the log of that call.
Started(t) == \E i \in 1..Len(log') : log'[i].ev = "start" /\ log'[i].t = t

\* C17 (as specified): right after every tween() call, with or without a
\* config, _originalState equals _currentState and has the keys of
\* _targetState; a call that starts no play segment leaves _originalState
\* as it is.
C17_OriginalIsCurrentAtStart ==
  [][\A t \in Tweens :
       /\ Started(t) =>
            /\ tw'[t]._originalState = tw'[t]._currentState
            /\ DOMAIN tw'[t]._targetState = DOMAIN tw'[t]._currentState
       /\ ~Started(t) => tw'[t]._originalState = tw[t]._originalState]_vars

\* The tweens processed in a call with log q, in the order of processing.
Processed(q) ==
  [i \in 1..Len(SelectSeq(q, LAMBDA e : e.ev = "process")) |->
     SelectSeq(q, LAMBDA e : e.ev = "process")[i].t]

\* The place of tween t in sequence q.
Place(q, t) == CHOOSE i \in 1..Len(q) : q[i] = t

\* The members of p are members of q and come in the order they have in q.
InOrder(p, q) ==
  /\ Range(p) \subseteq Range(q)
  /\ \A i, j \in 1..Len(p) : i < j => Place(q, p[i]) < Place(q, p[j])

\* The states pause(), stop() and cancel() of tween t end in.
Removals(t) == {pause(Fresh, t), stop(Fresh, t, FALSE), cancel(Fresh, t, FALSE)}

\* State r has registry q less tween t, and the links of t are null.
TakenOut(r, q, t) ==
  /\ Registry(r) = Without(q, t)
  /\ r.tw[t]._next = null
  /\ r.tw[t]._previous = null

\* The tick that ended in r processed tweens in the order of q and left
\* the registered ones in the order of q.
KeepsOrder(r, q) ==
  /\ InOrder(Processed(r.log), q)
  /\ InOrder(Registry(r), q)

\* The operations on the registry q keep its order.
OrderKept(q) ==
  \A t \in Tweens :
    /\ (~tw[t]._isPlaying /\ Configured(t)) =>
         Registry(resume(Fresh, t)) = q \o <<t>>
    /\ \A c \in RegConfigs(t) :
         Registry(tween(Fresh, t, c)) = Without(q, t) \o <<t>>
    /\ tw[t]._isPlaying => \A r \in Removals(t) : TakenOut(r, q, t)

\* C18: resume() of a tween that is not playing and tween(config) append
\* the tween at the tail of the registry and leave the order of the others;
\* pause(), stop() and cancel() of a playing tween take it out, wherever it
\* is, leave the order of the others and null its _next and _previous; a
\* tick processes tweens in registry order and leaves the tweens it does not
\* remove in that order.
C18_RegistryOrder ==
  /\ OrderKept(Registry(Fresh))
  /\ \A time \in now..RegMaxTime :
       KeepsOrder(scheduleUpdate(Fresh, time), Registry(Fresh))

\* C18 witness: in a tick over the registry 1, 2, 3 the render callback of
\* tween 1 has paused tween 2, the middle element: 1 and 3 are left in that
\* order and the links of 2 are null.
C18_Witness ==
  /\ Processed(log) = <<1, 2>>
  /\ \E i \in 1..Len(log) :
       log[i].ev = "process" /\ log[i].t = 2 /\ ~log[i].playing
  /\ Forward(listHead, NumTweens + 1) = <<1, 3>>
  /\ tw[2]._next = null /\ tw[2]._previous = null

\* C19: a play segment that the finish callback started from inside stop()
\* (or the completion) of the segment before keeps its continuation: while
\* it plays _resolve is the finish of its config, and stop(gotoEnd) invokes
\* exactly one continuation, the success one.
C19_ChainedSegmentKeepsContinuation ==
  \A t \in Tweens :
    (tw[t]._isPlaying /\ tw[t].gStarter = "finish") =>
      /\ tw[t]._resolve = ChainConfig.finish
      /\ \A g \in BOOLEAN :
           /\ Len(Continuations(stop(Fresh, t, g).log)) = 1
           /\ Continuations(stop(Fresh, t, g).log)[1].ev = "resolve"

\* The tween t, resumed at clock time r from state a, plays at the elapsed
\* position m.
ResumedAt(a, t, r, m) ==
  /\ resume([After(a) EXCEPT !.now = r], t).tw[t]._isPlaying
  /\ r - Num(resume([After(a) EXCEPT !.now = r], t).tw[t]._timestamp) = m

\* C20: seek(m) on a paused tween leaves it paused (not playing, the
\* registry as it was, no continuation invoked), and a resume() at any later
\* clock time r leaves it playing with r - _timestamp = m.
C20_SeekPausedThenResume ==
  \A t \in Tweens :
    (tw[t].gPhase = "paused" /\ ~tw[t]._isPlaying) =>
      \A m \in 0..MaxSeek :
        /\ ~seek(Fresh, t, m).tw[t]._isPlaying
        /\ Registry(seek(Fresh, t, m)) = Registry(Fresh)
        /\ Continuations(seek(Fresh, t, m).log) = <<>>
        /\ \A r \in now..MaxTime : ResumedAt(seek(Fresh, t, m), t, r, m)

\* C21: every tick returns, and in every state reachable with tween(),
\* setConfig(), pause(), resume(), seek(), stop(), cancel() and ticks the
\* _next chain from listHead reaches null within as many steps as there are
\* tweens and meets no tween twice.
C21_TickTerminates ==
  /\ ~Hung
  /\ Len(Registry(Cur)) <= Cardinality(Tweens)
  /\ \A i, j \in 1..Len(Registry(Cur)) :
       i # j => Registry(Cur)[i] # Registry(Cur)[j]

====
